---------------------------- MODULE Spec2Model ----------------------------
(***************************************************************************)
(* Model of the three batch scripts of the glacier tile pipeline:          *)
(*   clean_glacier_id_columns.py    (Property Copier)                      *)
(*   convert_geojson_to_mbtiles.py  (Tile Builder Invoker)                 *)
(*   convert_mbtiles_to_pbf.py      (Archive Exploder)                     *)
(* The scripts share no state; each has its own variables and its own      *)
(* specification (SpecCopier, SpecBuilder, SpecExploder).  A file name is  *)
(* the sequence of its '.'-separated components: "a.v2.mbtiles" is         *)
(* <<"a", "v2", "mbtiles">>.                                               *)
(***************************************************************************)
EXTENDS Integers, Sequences, FiniteSets, TLC

VARIABLES
    \* ---- Property Copier ----
    dataDir,      \* DATA_DIR: file name -> file content
    dirOrder,     \* the order in which os.listdir(DATA_DIR) reports the names
    cListing,     \* the list os.listdir returned to the running for loop
    cIdx,         \* position of the for loop in cListing
    cPc,          \* "loop", "done" (script ended), "crashed" (uncaught exception)
    cRun,         \* number of the current run of the script
    cLog,         \* the names printed by "Processed and saved: ..."
    cCrashAt,     \* the file on which an uncaught exception ended a run
    origDir,      \* history: DATA_DIR before the first run
    afterFirst    \* history: DATA_DIR when the first run ended

copierVars == <<dataDir, dirOrder, cListing, cIdx, cPc, cRun, cLog, cCrashAt,
                origDir, afterFirst>>

VARIABLES
    \* ---- Tile Builder Invoker ----
    bDir,         \* the names in the working directory
    bListing,     \* the list os.listdir returned to the for loop
    bIdx,         \* position of the for loop in bListing
    bPc,          \* "loop", "done", "crashed"
    bRuns,        \* the invocations made: [command, status], in order
    bLog          \* the lines printed

builderVars == <<bDir, bListing, bIdx, bPc, bRuns, bLog>>

VARIABLES
    \* ---- Archive Exploder ----
    eDir,         \* the working directory: name -> entry
    eListing,     \* the list os.listdir returned to the processing loop
    eIdx,         \* position of the processing loop in eListing
    ePc,          \* "loop", "done", "crashed"
    eTrace,       \* one record per .mbtiles entry the loop has reached
    eLog          \* the lines printed by the processing loop

exploderVars == <<eDir, eListing, eIdx, ePc, eTrace, eLog>>

vars == <<copierVars, builderVars, exploderVars>>

\* ------------------------------ bounds ---------------------------------
MaxFeatures == 2      \* features in all files of DATA_DIR together
MaxRuns == 2          \* runs of the Property Copier on one directory
MaxEntries == 3       \* entries in the Tile Builder Invoker's working directory
MaxArchives == 2      \* .mbtiles entries in the Archive Exploder's working directory

\* --------------------------- generic helpers ---------------------------
Last(s) == s[Len(s)]
Front(s) == SubSeq(s, 1, Len(s) - 1)
Range(s) == {s[i] : i \in 1..Len(s)}

\* str.endswith("." + ext) on a name given by its components
EndsWith(name, ext) == Len(name) >= 2 /\ Last(name) = ext

\* all orders (duplicate-free sequences) of a finite set
Perms(S) == {p \in [1..Cardinality(S) -> S] : \A i, j \in 1..Cardinality(S) :
                 p[i] = p[j] => i = j}

\* ========================== Property Copier ============================
SOURCE_KEY == "SGI"
DEST_KEY == "sgi-id"
Keys == {"SGI", "sgi-id", "name"}
\* a string holding a lone surrogate (written "\ud800" in the JSON text):
\* json.load accepts it, the utf-8 file json.dump writes to cannot encode it
LoneSurrogate == "U+D800"
ValuesOf(k) == IF k = "SGI" THEN {"B36-26", LoneSurrogate}
               ELSE IF k = "sgi-id" THEN {"old"} ELSE {"Rhone"}
AllValues == UNION {ValuesOf(k) : k \in Keys}

\* a property mapping is a function from the keys present to their values
PropMaps == UNION {{m \in [D -> AllValues] : \A k \in D : m[k] \in ValuesOf(k)} :
                   D \in SUBSET Keys}
EmptyMap == [k \in {} |-> "B36-26"]

\* a feature: "properties" is absent, JSON null, or a JSON object
Features == {[pkind |-> "missing", props |-> EmptyMap],
             [pkind |-> "null", props |-> EmptyMap]}
            \cup {[pkind |-> "object", props |-> m] : m \in PropMaps}

RECURSIVE SeqsOfLen(_, _)
SeqsOfLen(S, n) == IF n = 0 THEN {<<>>}
                   ELSE {Append(s, x) : s \in SeqsOfLen(S, n - 1), x \in S}

\* The text of a file: not JSON at all, or a feature collection written in
\* some layout (whitespace, key order, escapes); "indent2" is the layout
\* json.dump(..., ensure_ascii=False, indent=2) produces.
Malformed == [kind |-> "malformed", layout |-> "raw", features |-> <<>>]
Other == [kind |-> "other", layout |-> "raw", features |-> <<>>]
Absent == [kind |-> "absent", layout |-> "raw", features |-> <<>>]
\* what open(path, "w") and an interrupted json.dump leave: a fragment, not JSON
Truncated == [kind |-> "truncated", layout |-> "indent2", features |-> <<>>]
TextsWith(n) == {[kind |-> "json", layout |-> l, features |-> fs] :
                    l \in {"raw", "indent2"}, fs \in SeqsOfLen(Features, n)}
                \cup (IF n = 0 THEN {Malformed} ELSE {})
TextsUpTo(n) == UNION {TextsWith(m) : m \in 0..n}

FileA == <<"a", "geojson">>
FileB == <<"b", "geojson">>
FileTxt == <<"readme", "txt">>

\* json.load: the layout is lost, the data is kept; text that is not JSON raises
JsonLoad(text) == IF text.kind = "json"
                  THEN [raised |-> FALSE, data |-> text.features]
                  ELSE [raised |-> TRUE, data |-> <<>>]

\* line 45: with ensure_ascii=False a string that utf-8 cannot encode makes
\* the write raise UnicodeEncodeError
DumpRaises(data) ==
    \E i \in 1..Len(data) :
        data[i].pkind = "object"
        /\ \E k \in DOMAIN data[i].props : data[i].props[k] = LoneSurrogate

\* lines 44-45: open(path, "w") has emptied the file; json.dump(data, f,
\* ensure_ascii=False, indent=2) writes the whole text or raises part-way
JsonDump(data) ==
    IF DumpRaises(data)
    THEN [raised |-> TRUE, text |-> Truncated]
    ELSE [raised |-> FALSE,
          text |-> [kind |-> "json", layout |-> "indent2", features |-> data]]

\* feature["properties"][k] = v
SetKey(m, k, v) == [x \in DOMAIN m \cup {k} |-> IF x = k THEN v ELSE m[x]]

\* a destructive variant of the copy: the source key is renamed
MoveRule(f) ==
    IF f.pkind = "object" /\ SOURCE_KEY \in DOMAIN f.props
    THEN [f EXCEPT !.props = [x \in (DOMAIN f.props \ {SOURCE_KEY}) \cup {DEST_KEY} |->
                                 IF x = DEST_KEY THEN f.props[SOURCE_KEY] ELSE f.props[x]]]
    ELSE f

\* lines 40-41 on one feature whose "properties" is absent or an object
CopyRule(f) ==
    IF f.pkind = "object" /\ SOURCE_KEY \in DOMAIN f.props
    THEN [f EXCEPT !.props = SetKey(f.props, DEST_KEY, f.props[SOURCE_KEY])]
    ELSE f

\* line 40: feature.get("properties", {}) is None for a JSON null, and
\* `"SGI" in None` raises TypeError
FeatureRaises(f) == f.pkind = "null"

\* lines 39-41: the feature loop; an exception leaves the loop at once
ProcessFeatures(data) ==
    IF \E i \in 1..Len(data) : FeatureRaises(data[i])
    THEN [raised |-> TRUE, data |-> data]
    ELSE [raised |-> FALSE, data |-> [i \in 1..Len(data) |-> CopyRule(data[i])]]

\* the documented output path: the name with the prefix 'updated_'
UpdatedPath(name) == <<"updated_" \o name[1]>> \o Tail(name)

\* line 44: the path the result is written to is file_path itself
OutputPath(name) == name

\* open(path, "w") + json.dump: an existing file is overwritten in place,
\* a new one becomes a new directory entry
WriteFile(dir, path, text) == [n \in DOMAIN dir \cup {path} |->
                                 IF n = path THEN text ELSE dir[n]]
WriteOrder(order, path) == IF path \in Range(order) THEN order
                           ELSE Append(order, path)

\* lines 32-45 for one .geojson file.  An exception of line 36 or 40 leaves
\* the directory as it was (opened: FALSE); one of line 45 leaves the opened
\* file as a fragment.
ProcessFile(dir, name) ==
    LET loaded == JsonLoad(dir[name])
        done == ProcessFeatures(loaded.data)
        dumped == JsonDump(done.data)
    IN  IF loaded.raised \/ done.raised
        THEN [raised |-> TRUE, opened |-> FALSE, dir |-> dir]
        ELSE [raised |-> dumped.raised, opened |-> TRUE,
              dir |-> WriteFile(dir, OutputPath(name), dumped.text)]

InitCopier ==
    /\ \E na \in 0..MaxFeatures :
         \E ta \in {Absent} \cup TextsWith(na) :
           \E tb \in {Absent} \cup TextsUpTo(MaxFeatures - na) :
             \E tt \in {Absent, Other} :
               LET all == [n \in {FileA, FileB, FileTxt} |->
                              IF n = FileA THEN ta ELSE IF n = FileB THEN tb ELSE tt]
                   present == {n \in DOMAIN all : all[n].kind # "absent"}
               IN  /\ dataDir = [n \in present |-> all[n]]
                   /\ dirOrder \in Perms(present)
    /\ cListing = dirOrder
    /\ cIdx = 1
    /\ cPc = "loop"
    /\ cRun = 1
    /\ cLog = <<>>
    /\ cCrashAt = <<>>
    /\ origDir = dataDir
    /\ afterFirst = dataDir

\* line 31 false: the entry is not a .geojson file
CopierSkip ==
    /\ cPc = "loop" /\ cIdx <= Len(cListing)
    /\ ~EndsWith(cListing[cIdx], "geojson")
    /\ cIdx' = cIdx + 1
    /\ UNCHANGED <<dataDir, dirOrder, cListing, cPc, cRun, cLog, cCrashAt,
                   origDir, afterFirst>>

\* lines 32-47: one file read, changed in memory, written, reported
CopierProcess ==
    /\ cPc = "loop" /\ cIdx <= Len(cListing)
    /\ EndsWith(cListing[cIdx], "geojson")
    /\ LET r == ProcessFile(dataDir, cListing[cIdx])
       IN  /\ ~r.raised
           /\ dataDir' = r.dir
           /\ dirOrder' = WriteOrder(dirOrder, OutputPath(cListing[cIdx]))
    /\ cLog' = Append(cLog, cListing[cIdx])
    /\ cIdx' = cIdx + 1
    /\ UNCHANGED <<cListing, cPc, cRun, cCrashAt, origDir, afterFirst>>

\* lines 36, 40 and 45: an exception nothing catches ends the script
CopierAbort ==
    /\ cPc = "loop" /\ cIdx <= Len(cListing)
    /\ EndsWith(cListing[cIdx], "geojson")
    /\ LET r == ProcessFile(dataDir, cListing[cIdx])
       IN  /\ r.raised
           /\ dataDir' = r.dir
           /\ dirOrder' = IF r.opened
                          THEN WriteOrder(dirOrder, OutputPath(cListing[cIdx]))
                          ELSE dirOrder
    /\ cPc' = "crashed"
    /\ cCrashAt' = cListing[cIdx]
    /\ afterFirst' = IF cRun = 1 THEN dataDir' ELSE afterFirst
    /\ UNCHANGED <<cListing, cIdx, cRun, cLog, origDir>>

\* the for loop of line 30 is exhausted
CopierExit ==
    /\ cPc = "loop" /\ cIdx > Len(cListing)
    /\ cPc' = "done"
    /\ afterFirst' = IF cRun = 1 THEN dataDir ELSE afterFirst
    /\ UNCHANGED <<dataDir, dirOrder, cListing, cIdx, cRun, cLog, cCrashAt, origDir>>

\* the operator runs the script again on the same directory
CopierRerun ==
    /\ cPc \in {"done", "crashed"} /\ cRun < MaxRuns
    /\ cRun' = cRun + 1
    /\ cListing' = dirOrder
    /\ cIdx' = 1
    /\ cPc' = "loop"
    /\ cCrashAt' = <<>>
    /\ UNCHANGED <<dataDir, dirOrder, cLog, origDir, afterFirst>>

\* ======================== Tile Builder Invoker =========================
TIPPECANOE_PATH == "tippecanoe"
ZOOM_LEVELS == <<6, 14>>

BuilderNames == {<<"a", "geojson">>, <<"b", "geojson">>, <<"a", "v2", "geojson">>,
                 <<"", "geojson">>, <<"", "", "geojson">>, <<"a", "mbtiles">>,
                 <<"geojson">>}

\* os.path.splitext(filename)[0]: what follows the last dot is dropped when a
\* character other than a dot stands before that dot; a name without a dot,
\* or with leading dots only (".geojson", "..geojson"), is kept whole
SplitExtRoot(name) ==
    IF \E i \in 1..(Len(name) - 1) : name[i] # "" THEN Front(name) ELSE name

\* line 50
OutputFilename(filename) == Append(SplitExtRoot(filename), "mbtiles")

\* lines 56-64: the argument list handed to subprocess.run
TippecanoeCommand(filename, tippecanoe_path, zoom_levels) ==
    [tool |-> tippecanoe_path, o |-> OutputFilename(filename),
     z |-> zoom_levels[2], Z |-> zoom_levels[1],
     generateIds |-> TRUE, f |-> TRUE, input |-> filename]

\* The exit statuses of the tiling tool.  The script's stated requirement is
\* that tippecanoe is installed and on the PATH, so every invocation starts
\* the tool and ends with an exit status.
ExitStatuses == {0, 1}

\* subprocess.run(command, check=True): a non-zero exit raises CalledProcessError
SubprocessRun(status) == IF status # 0 THEN "CalledProcessError" ELSE "none"

\* an except clause that lets the tool's failure through
ExceptNothing(exc) == FALSE

\* line 69: except subprocess.CalledProcessError
ExceptClause(exc) == exc = "CalledProcessError"

InitBuilder ==
    /\ bDir \in {S \in SUBSET BuilderNames : Cardinality(S) <= MaxEntries}
    /\ bListing \in Perms(bDir)
    /\ bIdx = 1
    /\ bPc = "loop"
    /\ bRuns = <<>>
    /\ bLog = <<>>

\* line 48 false: the entry is not a .geojson file
BuilderSkip ==
    /\ bPc = "loop" /\ bIdx <= Len(bListing)
    /\ ~EndsWith(bListing[bIdx], "geojson")
    /\ bIdx' = bIdx + 1
    /\ UNCHANGED <<bDir, bListing, bPc, bRuns, bLog>>

\* lines 49-68: the tool exits with status 0 and has written the archive
BuilderConvertOk ==
    /\ bPc = "loop" /\ bIdx <= Len(bListing)
    /\ EndsWith(bListing[bIdx], "geojson")
    /\ LET filename == bListing[bIdx]
           command == TippecanoeCommand(filename, TIPPECANOE_PATH, ZOOM_LEVELS)
       IN  /\ SubprocessRun(0) = "none"
           /\ bRuns' = Append(bRuns, [command |-> command, status |-> 0])
           /\ bDir' = bDir \cup {command.o}
           /\ bLog' = bLog \o <<[msg |-> "Converting", file |-> filename],
                                [msg |-> "Successfully created", file |-> filename]>>
    /\ bIdx' = bIdx + 1
    /\ UNCHANGED <<bListing, bPc>>

\* lines 49-70: the tool exits with a non-zero status
BuilderConvertFail ==
    /\ bPc = "loop" /\ bIdx <= Len(bListing)
    /\ EndsWith(bListing[bIdx], "geojson")
    /\ \E status \in ExitStatuses \ {0} :
         LET filename == bListing[bIdx]
             command == TippecanoeCommand(filename, TIPPECANOE_PATH, ZOOM_LEVELS)
             exc == SubprocessRun(status)
         IN  /\ exc # "none"
             /\ bRuns' = Append(bRuns, [command |-> command, status |-> status])
             /\ IF ExceptClause(exc)
                THEN /\ bLog' = bLog \o <<[msg |-> "Converting", file |-> filename],
                                          [msg |-> "Error converting", file |-> filename]>>
                     /\ bIdx' = bIdx + 1
                     /\ bPc' = bPc
                ELSE /\ bLog' = Append(bLog, [msg |-> "Converting", file |-> filename])
                     /\ bIdx' = bIdx
                     /\ bPc' = "crashed"
    /\ UNCHANGED <<bDir, bListing>>

\* the for loop of line 47 is exhausted
BuilderExit ==
    /\ bPc = "loop" /\ bIdx > Len(bListing)
    /\ bPc' = "done"
    /\ UNCHANGED <<bDir, bListing, bIdx, bRuns, bLog>>

\* ========================== Archive Exploder ===========================
NONE == "None"
\* zoom values are kept as the text the f-string of lines 134-135 renders
DEFAULT_ZOOM == <<"1", "12">>

\* A directory entry.  kind: "dir" or "file".  db says what sqlite3 finds in a
\* file: "unreadable" (it cannot be opened), "notadb" (not a database),
\* "notable" (a database without a metadata table), "ok" (a metadata table
\* whose minzoom / maxzoom row is "absent", holds NULL (NONE) or a value).
Entry(kind, db, minz, maxz) == [kind |-> kind, db |-> db, minzoom |-> minz, maxzoom |-> maxz]
DirEntry == Entry("dir", "none", "absent", "absent")
ArchiveEntries ==
    {DirEntry}
    \cup {Entry("file", db, "absent", "absent") : db \in {"unreadable", "notadb", "notable"}}
    \cup {Entry("file", "ok", mn, mx) : mn \in {"absent", NONE, "3"},
                                        mx \in {"absent", NONE, "10"}}

ArchiveNames == {<<"x", "mbtiles">>, <<"y", "mbtiles">>, <<"x", "v2", "mbtiles">>}
TargetNames == {<<"x">>, <<"y">>}

\* line 118: os.path.basename(file).split('.')[0]
NewDirName(file) == <<file[1]>>

\* line 121: os.path.exists(newDirName), relative to the working directory
PathExists(dir, path) == path \in DOMAIN dir

\* line 71: sqlite3.connect(filename) raises OperationalError when the file
\* cannot be opened (a directory, no permission)
ConnectRaises(entry) == entry.kind = "dir" \/ entry.db = "unreadable"

\* lines 76-79: what cursor.execute raises on the metadata query
LookupError(entry) == IF entry.db = "notadb" THEN "DatabaseError"
                      ELSE IF entry.db = "notable" THEN "OperationalError"
                      ELSE "none"

\* lines 28-52: handle_zoom_level_error; isinstance is tested most specific first
HandleZoomLevelErrorDefaults(error) ==
    [zoom |-> DEFAULT_ZOOM, msg |-> "Unexpected error"]

HandleZoomLevelError(error) ==
    [zoom |-> <<NONE, NONE>>,
     msg |-> IF error = "OperationalError" THEN "SQLite operational error"
             ELSE IF error = "DatabaseError" THEN "SQLite database error"
             ELSE IF error = "Error" THEN "General SQLite error"
             ELSE IF error = "ValueError" THEN "Value error"
             ELSE IF error = "OSError" THEN "OS error"
             ELSE "Unexpected error"]

\* lines 82-84 with no default: a missing row resolves nothing
AbsentRowsUnresolved(entry) == <<NONE, NONE>>

\* lines 82-84: either row missing gives the default pair
AbsentRows(entry) == DEFAULT_ZOOM

\* lines 55-96: get_zoom_levels.  raised: the exception that leaves the
\* function (connect is outside the try block), or "none".
GetZoomLevels(entry) ==
    IF ConnectRaises(entry)
    THEN [raised |-> "OperationalError", zoom |-> <<NONE, NONE>>, msg |-> "none"]
    ELSE IF LookupError(entry) # "none"
    THEN LET h == HandleZoomLevelError(LookupError(entry))
         IN  [raised |-> "none", zoom |-> h.zoom, msg |-> h.msg]
    ELSE IF entry.minzoom = "absent" \/ entry.maxzoom = "absent"
    THEN [raised |-> "none", zoom |-> AbsentRows(entry),
          msg |-> "Warning: No zoom levels found"]
    ELSE [raised |-> "none", zoom |-> <<entry.minzoom, entry.maxzoom>>, msg |-> "none"]

\* lines 133-137: the command line handed to os.system
OgrCommand(newDirName, file, minzoom, maxzoom) ==
    [tool |-> "ogr2ogr", f |-> "MVT", out |-> newDirName, input |-> file,
     MINZOOM |-> minzoom, MAXZOOM |-> maxzoom, COMPRESS |-> "NO", FORMAT |-> "DIRECTORY"]
NoCommand == OgrCommand(<<>>, <<>>, NONE, NONE)

\* What the conversion tool can do: exit 0 having created the directory, or
\* exit non-zero with or without the directory left behind.
OgrOutcomes == {[status |-> 0, created |-> TRUE], [status |-> 256, created |-> TRUE],
                [status |-> 256, created |-> FALSE]}

\* one record of eTrace
TraceRec(file, existed, metaRead, zoom, command, status, raised) ==
    [file |-> file, existed |-> existed, metaRead |-> metaRead, zoom |-> zoom,
     command |-> command, status |-> status, raised |-> raised]

InitExploder ==
    /\ \E A \in {S \in SUBSET ArchiveNames : Cardinality(S) <= MaxArchives} :
         \E T \in SUBSET TargetNames :
           \E arch \in [A -> ArchiveEntries] :
             eDir = [n \in A \cup T |-> IF n \in A THEN arch[n] ELSE DirEntry]
    /\ eListing \in Perms(DOMAIN eDir)
    /\ eIdx = 1
    /\ ePc = "loop"
    /\ eTrace = <<>>
    /\ eLog = <<>>

ELoopAt == ePc = "loop" /\ eIdx <= Len(eListing)

\* the collision guard of lines 121-123 switched off
NoGuard(dir, path) == FALSE

\* lines 121-123: the target exists already
CollisionGuard(dir, path) == PathExists(dir, path)

\* line 117 false: the entry is not an .mbtiles file
ExploderSkipOther ==
    /\ ELoopAt
    /\ ~EndsWith(eListing[eIdx], "mbtiles")
    /\ eIdx' = eIdx + 1
    /\ UNCHANGED <<eDir, eListing, ePc, eTrace, eLog>>

\* lines 118-123: the target directory exists, the archive is skipped
ExploderSkipExisting ==
    /\ ELoopAt
    /\ EndsWith(eListing[eIdx], "mbtiles")
    /\ LET file == eListing[eIdx]
       IN  /\ CollisionGuard(eDir, NewDirName(file))
           /\ eTrace' = Append(eTrace, TraceRec(file, TRUE, FALSE, <<NONE, NONE>>,
                                                NoCommand, -1, "none"))
           /\ eLog' = Append(eLog, [msg |-> "Error: Directory already exists", file |-> file])
    /\ eIdx' = eIdx + 1
    /\ UNCHANGED <<eDir, eListing, ePc>>

\* line 126 -> line 71: sqlite3.connect raises outside any try block
ExploderOpenFails ==
    /\ ELoopAt
    /\ EndsWith(eListing[eIdx], "mbtiles")
    /\ LET file == eListing[eIdx]
           z == GetZoomLevels(eDir[file])
       IN  /\ ~CollisionGuard(eDir, NewDirName(file))
           /\ z.raised # "none"
           /\ eTrace' = Append(eTrace, TraceRec(file, PathExists(eDir, NewDirName(file)),
                                                TRUE, z.zoom, NoCommand, -1, z.raised))
    /\ ePc' = "crashed"
    /\ UNCHANGED <<eDir, eListing, eIdx, eLog>>

\* lines 126-131: zoom bounds are unresolved, the archive is skipped
ExploderSkipUnresolved ==
    /\ ELoopAt
    /\ EndsWith(eListing[eIdx], "mbtiles")
    /\ LET file == eListing[eIdx]
           z == GetZoomLevels(eDir[file])
       IN  /\ ~CollisionGuard(eDir, NewDirName(file))
           /\ z.raised = "none"
           /\ z.zoom[1] = NONE \/ z.zoom[2] = NONE
           /\ eTrace' = Append(eTrace, TraceRec(file, PathExists(eDir, NewDirName(file)),
                                                TRUE, z.zoom, NoCommand, -1, "none"))
           /\ eLog' = eLog \o (IF z.msg = "none" THEN <<>>
                               ELSE <<[msg |-> z.msg, file |-> file]>>)
                           \o <<[msg |-> "Skipping due to missing zoom levels", file |-> file]>>
    /\ eIdx' = eIdx + 1
    /\ UNCHANGED <<eDir, eListing, ePc>>

\* lines 126-139: the conversion tool is run; the script ends the iteration there
ExploderConvert ==
    /\ ELoopAt
    /\ EndsWith(eListing[eIdx], "mbtiles")
    /\ \E out \in OgrOutcomes :
         LET file == eListing[eIdx]
             z == GetZoomLevels(eDir[file])
             newDirName == NewDirName(file)
             command == OgrCommand(newDirName, file, z.zoom[1], z.zoom[2])
         IN  /\ ~CollisionGuard(eDir, newDirName)
             /\ z.raised = "none"
             /\ z.zoom[1] # NONE /\ z.zoom[2] # NONE
             /\ eTrace' = Append(eTrace, TraceRec(file, PathExists(eDir, newDirName),
                                                  TRUE, z.zoom, command, out.status, "none"))
             /\ eLog' = eLog \o (IF z.msg = "none" THEN <<>>
                                 ELSE <<[msg |-> z.msg, file |-> file]>>)
                             \o <<[msg |-> "Running", file |-> file]>>
             /\ eDir' = IF out.created
                        THEN [n \in DOMAIN eDir \cup {newDirName} |->
                                 IF n = newDirName THEN DirEntry ELSE eDir[n]]
                        ELSE eDir
    /\ eIdx' = eIdx + 1
    /\ UNCHANGED <<eListing, ePc>>

\* the for loop of line 116 is exhausted
ExploderExit ==
    /\ ePc = "loop" /\ eIdx > Len(eListing)
    /\ ePc' = "done"
    /\ UNCHANGED <<eDir, eListing, eIdx, eTrace, eLog>>

\* ============================ specifications ===========================
\* a script that is not run
IdleCopier ==
    /\ dataDir = [n \in {} |-> Absent] /\ dirOrder = <<>> /\ cListing = <<>>
    /\ cIdx = 1 /\ cPc = "idle" /\ cRun = 1 /\ cLog = <<>> /\ cCrashAt = <<>>
    /\ origDir = dataDir /\ afterFirst = dataDir
IdleBuilder ==
    /\ bDir = {} /\ bListing = <<>> /\ bIdx = 1 /\ bPc = "idle"
    /\ bRuns = <<>> /\ bLog = <<>>
IdleExploder ==
    /\ eDir = [n \in {} |-> DirEntry] /\ eListing = <<>> /\ eIdx = 1 /\ ePc = "idle"
    /\ eTrace = <<>> /\ eLog = <<>>

NextCopier ==
    \/ CopierSkip /\ UNCHANGED <<builderVars, exploderVars>>
    \/ CopierProcess /\ UNCHANGED <<builderVars, exploderVars>>
    \/ CopierAbort /\ UNCHANGED <<builderVars, exploderVars>>
    \/ CopierExit /\ UNCHANGED <<builderVars, exploderVars>>
    \/ CopierRerun /\ UNCHANGED <<builderVars, exploderVars>>

NextBuilder ==
    \/ BuilderSkip /\ UNCHANGED <<copierVars, exploderVars>>
    \/ BuilderConvertOk /\ UNCHANGED <<copierVars, exploderVars>>
    \/ BuilderConvertFail /\ UNCHANGED <<copierVars, exploderVars>>
    \/ BuilderExit /\ UNCHANGED <<copierVars, exploderVars>>

NextExploder ==
    \/ ExploderSkipOther /\ UNCHANGED <<copierVars, builderVars>>
    \/ ExploderSkipExisting /\ UNCHANGED <<copierVars, builderVars>>
    \/ ExploderOpenFails /\ UNCHANGED <<copierVars, builderVars>>
    \/ ExploderSkipUnresolved /\ UNCHANGED <<copierVars, builderVars>>
    \/ ExploderConvert /\ UNCHANGED <<copierVars, builderVars>>
    \/ ExploderExit /\ UNCHANGED <<copierVars, builderVars>>

\* each script is run on its own; the other two stay idle
InitCopierRun == IdleBuilder /\ IdleExploder /\ InitCopier
InitBuilderRun == IdleCopier /\ IdleExploder /\ InitBuilder
InitExploderRun == IdleCopier /\ IdleBuilder /\ InitExploder

SpecCopier == InitCopierRun /\ [][NextCopier]_vars
SpecBuilder == InitBuilderRun /\ [][NextBuilder]_vars
SpecExploder == InitExploderRun /\ [][NextExploder]_vars

\* ============================== properties =============================
\* the loop of a Property Copier run has reached the file (finished it, or
\* ended on it with an exception)
CopierReached(n) ==
    \E i \in 1..Len(cListing) :
        cListing[i] = n /\ (i < cIdx \/ (i = cIdx /\ cPc = "crashed"))

LacksSource(f) == f.pkind # "object" \/ SOURCE_KEY \notin DOMAIN f.props
HasSource(f) == f.pkind = "object" /\ SOURCE_KEY \in DOMAIN f.props

\* C1: every .geojson file the Property Copier processed has its result in a
\* new file named 'updated_' + its name, and its own content is what it was
\* before the run.
C1_NonDestructive ==
    \A i \in 1..Len(cLog) :
        cLog[i] \in DOMAIN origDir =>
            /\ UpdatedPath(cLog[i]) \in DOMAIN dataDir
            /\ dataDir[cLog[i]] = origDir[cLog[i]]

\* C7: in every processed file, a feature that had the key 'SGI' has 'sgi-id'
\* equal to that value afterwards, 'SGI' unchanged, and every key it had other
\* than 'sgi-id' still present with its value.
C7_CopyRule ==
    \A n \in Range(cLog) \cap DOMAIN origDir :
        /\ OutputPath(n) \in DOMAIN dataDir
        /\ Len(dataDir[OutputPath(n)].features) = Len(origDir[n].features)
        /\ \A i \in 1..Len(origDir[n].features) :
             LET before == origDir[n].features[i]
                 after == dataDir[OutputPath(n)].features[i]
             IN  HasSource(before) =>
                   /\ after.pkind = "object"
                   /\ DEST_KEY \in DOMAIN after.props
                   /\ after.props[DEST_KEY] = before.props[SOURCE_KEY]
                   /\ \A k \in DOMAIN before.props \ {DEST_KEY} :
                        k \in DOMAIN after.props /\ after.props[k] = before.props[k]

\* a processed file in which 'SGI' was copied over an older 'sgi-id', next to
\* another key
C7_Witness ==
    \E n \in Range(cLog) \cap DOMAIN origDir :
        \E i \in 1..Len(origDir[n].features) :
            /\ HasSource(origDir[n].features[i])
            /\ DOMAIN origDir[n].features[i].props = Keys
            /\ origDir[n].features[i].props[DEST_KEY] = "old"
            /\ dataDir[n].features[i].props[DEST_KEY] = "B36-26"

\* C8: a feature without 'SGI' (its properties an object without the key,
\* empty, missing or null) is the same after processing, and the processing of
\* its file completes.
C8_WithoutSourceUntouched ==
    \A n \in DOMAIN origDir :
        (EndsWith(n, "geojson") /\ origDir[n].kind = "json" /\ CopierReached(n)) =>
            \A i \in 1..Len(origDir[n].features) :
                LacksSource(origDir[n].features[i]) =>
                    /\ n \in Range(cLog)
                    /\ dataDir[n].kind = "json"
                    /\ dataDir[n].features[i] = origDir[n].features[i]

\* C9: when a second run of the Property Copier has ended, the data directory
\* (the files in it and the content of each) is what the first run left.
C9_Idempotent ==
    (cRun >= 2 /\ cPc \in {"done", "crashed"}) => dataDir = afterFirst

\* a second run has ended on a directory in which the first run changed a
\* feature's properties
C9_Witness ==
    /\ cRun = 2 /\ cPc = "done"
    /\ \E n \in Range(cLog) : \E i \in 1..Len(origDir[n].features) :
          dataDir[n].features[i] # origDir[n].features[i]

\* C3: a non-zero exit of the tiling tool is caught and logged with the file
\* name, the loop goes on, and the tool has been invoked for every .geojson
\* file the loop has passed (all of them when the script ends).
C3_BuilderContinues ==
    /\ bPc # "crashed"
    /\ \A i \in 1..Len(bRuns) :
          bRuns[i].status # 0 =>
              [msg |-> "Error converting", file |-> bRuns[i].command.input] \in Range(bLog)
    /\ \A i \in 1..Len(bListing) :
          (EndsWith(bListing[i], "geojson") /\ (i < bIdx \/ bPc = "done")) =>
              \E j \in 1..Len(bRuns) : bRuns[j].command.input = bListing[i]

\* the script has ended after an invocation failed and a later one was made
C3_Witness ==
    /\ bPc = "done"
    /\ \E i, j \in 1..Len(bRuns) : i < j /\ bRuns[i].status # 0

\* C2: when the Archive Exploder has ended, every .mbtiles entry of the
\* working directory has been reached by the processing loop, whatever
\* per-file failure happened.
C2_ExploderVisitsAll ==
    ePc \in {"done", "crashed"} =>
        \A n \in Range(eListing) :
            EndsWith(n, "mbtiles") => \E i \in 1..Len(eTrace) : eTrace[i].file = n

\* the metadata query on the entry raises
LookupRaises(entry) == entry.kind = "file" /\ entry.db \in {"notadb", "notable"}
\* the metadata table is readable and lacks the minzoom or the maxzoom row
RowAbsent(entry) ==
    entry.kind = "file" /\ entry.db = "ok"
    /\ (entry.minzoom = "absent" \/ entry.maxzoom = "absent")

\* C4: an archive whose metadata lookup raised has bounds (None, None), not the
\* default pair, is skipped with a log line, and no conversion is run for it.
C4_UnreadableSkipped ==
    \A i \in 1..Len(eTrace) :
        (eTrace[i].metaRead /\ LookupRaises(eDir[eTrace[i].file])) =>
            /\ eTrace[i].zoom = <<NONE, NONE>>
            /\ eTrace[i].zoom # DEFAULT_ZOOM
            /\ eTrace[i].command = NoCommand
            /\ eTrace[i].raised = "none"
            /\ [msg |-> "Skipping due to missing zoom levels", file |-> eTrace[i].file]
                   \in Range(eLog)

\* an archive whose lookup raised has been passed, and the loop went on
C4_Witness ==
    \E i \in 1..Len(eTrace) :
        /\ eTrace[i].metaRead /\ LookupRaises(eDir[eTrace[i].file])
        /\ eIdx > 1 /\ ePc = "loop"

\* C5: an archive with a readable metadata table that lacks the minzoom or the
\* maxzoom row resolves to (1, 12) when its metadata is read, and when its
\* target did not exist the conversion tool is run for it with MINZOOM=1 and
\* MAXZOOM=12.
C5_AbsentRowsDefault ==
    \A i \in 1..Len(eTrace) :
        LET r == eTrace[i]
        IN  RowAbsent(eDir[r.file]) =>
              /\ r.metaRead => r.zoom = <<"1", "12">>
              /\ ~r.existed =>
                    /\ r.command = OgrCommand(NewDirName(r.file), r.file, "1", "12")
                    /\ r.status # -1

\* an archive with minzoom=3 and no maxzoom row was converted with (1, 12)
C5_Witness ==
    \E i \in 1..Len(eTrace) :
        /\ eDir[eTrace[i].file].db = "ok"
        /\ eDir[eTrace[i].file].minzoom = "3"
        /\ eDir[eTrace[i].file].maxzoom = "absent"
        /\ eTrace[i].command.MINZOOM = "1" /\ eTrace[i].command.MAXZOOM = "12"
        /\ eTrace[i].status = 0

\* C6: an archive whose target existed when the loop reached it has no
\* conversion run, its metadata is not read, and the loop goes on to the next
\* entry.
C6_CollisionGuard ==
    \A i \in 1..Len(eTrace) :
        eTrace[i].existed =>
            /\ eTrace[i].command = NoCommand
            /\ eTrace[i].status = -1
            /\ ~eTrace[i].metaRead
            /\ eTrace[i].raised = "none"
            /\ \E k \in 1..Len(eListing) : eListing[k] = eTrace[i].file /\ k < eIdx

\* an archive with full metadata was skipped because an earlier conversion of
\* this run had created its target, and the loop ran on to its end
C6_Witness ==
    \E i, j \in 1..Len(eTrace) :
        /\ i < j /\ ePc = "done"
        /\ eTrace[i].status = 0
        /\ NewDirName(eTrace[i].file) = NewDirName(eTrace[j].file)
        /\ eTrace[j].existed
        /\ eDir[eTrace[j].file].minzoom = "3" /\ eDir[eTrace[j].file].maxzoom = "10"

\* C10: an archive that was converted successfully is deleted; one that was
\* skipped or whose conversion failed is still there.
C10_ArchiveRetired ==
    \A i \in 1..Len(eTrace) :
        /\ eTrace[i].status = 0 => eTrace[i].file \notin DOMAIN eDir
        /\ eTrace[i].status # 0 => eTrace[i].file \in DOMAIN eDir

=============================================================================
